---- MODULE Spec2Model ----
(***************************************************************************)
(* A model of the website builder: the Agent Client (mcp_client.py: the    *)
(* session manager, the lazily built agent and the request pipeline) and   *)
(* the Tool Server (mcp_server.py: code extraction, deployment, the image  *)
(* catalog and code persistence).                                          *)
(*                                                                         *)
(* Texts are sequences of tokens: a returned string is the sequence of its *)
(* parts, so "begins with", "contains" and "is appended" are statements    *)
(* about positions of a sequence.                                          *)
(***************************************************************************)
EXTENDS Integers, Sequences, FiniteSets, TLC

(***************************************************************************)
(* Bounds of the model.                                                    *)
(***************************************************************************)
NumProcs == 2
MaxCalls == 3
NumRests == 2
MaxMsgs == 2
MaxText == 5
MaxChunks == 5

(***************************************************************************)
(* Identifiers.  A session identifier is the string of a version-4 UUID;   *)
(* the model keeps its first 8 characters (pre) apart from the remaining   *)
(* ones (rest), so two identifiers may share their first 8 characters.     *)
(***************************************************************************)
Prefixes == {"0a1b2c3d", "9f8e7d6c"}
UUIDS == [pre : Prefixes, rest : 1..NumRests]
\* Python's None, as the value of an Optional[str] field.
None == [pre |-> "None", rest |-> 0]
\* The global agent before construction (agent = None).
NoAgent == 0
Procs == 1..NumProcs
\* Messages of the exceptions the external collaborators raise.
Errors == {"connection refused", "invalid API key"}
Descriptions == {"", "portfolio site"}

VARIABLES
  \* WebsiteSessionManager
  current_session_id, project_description,
  \* the module-level global agent
  agent,
  \* one coroutine per slot: its position, what it runs and its locals
  pc, job, current_agent, session_id,
  \* the value the last finished call handed back to its caller
  output,
  \* history (not program state): calls made, agents built, assignments of
  \* the global agent, identifiers issued, identifiers formerly current,
  \* calls of start_new_session, agents that served a request, invocations
  \* of the agent for the message a slot is processing, Clear Session
  \* actions in a row
  \* actions in a row, the project description the last call of
  \* start_new_session found
  calls, constructed, assigned, issued, past_ids, starts, served,
  invocations, clear_streak, desc_before,
  \* Tool Server: the tool call being served (its name and arguments), what
  \* it returned, and whether the interpreter's re module has possessive
  \* quantifiers (Python 3.11 and later)
  call, ret, re_possessive,
  \* the disk of the Tool Server: whether IMAGES_DIR exists, what each name
  \* in it holds, and whether the directory can be listed
  dir_exists, files, dir_readable,
  \* what the file index.html of the directory above IMAGES_DIR holds, and
  \* the working directory of the server process
  outside, cwd,
  \* the save_code_to_path call that is between its statements, and what
  \* the last deployment uploaded
  saving, shipped

smVars == <<current_session_id, project_description>>
coVars == <<pc, job, current_agent, session_id>>
histVars == <<calls, constructed, assigned, issued, past_ids, starts, served,
              invocations, clear_streak, desc_before>>
clientVars == <<smVars, agent, coVars, output, histVars>>
fsVars == <<dir_exists, files, dir_readable>>
\* The rest of the server's world.
restVars == <<outside, cwd, saving, shipped>>
toolVars == <<call, ret, re_possessive, fsVars, restVars>>
vars == <<clientVars, toolVars>>

(***************************************************************************)
(* Texts.                                                                  *)
(***************************************************************************)
\* session_id[:8]
Prefix8(sid) == sid.pre

TROUBLESHOOT ==
  "\n\nPlease check that:\n1. The Gradio MCP server is running on port 7860\n2. Your Google API key is set correctly\n3. The server is accessible"

\* f"\n\n🧠 **Session ID:** {session_id[:8]}... (State automatically saved)"
session_status(sid) ==
  <<"\n\n**Session ID:** ", Prefix8(sid), "... (State automatically saved)">>

\* The except clause of process_prompt: the string built from exception e.
process_prompt_except_noprefix(e) == e \o <<TROUBLESHOOT>>
process_prompt_except(e) == <<"Error: ">> \o e \o <<TROUBLESHOOT>>

\* The except clause of setup: the exception it raises for cause e.
setup_except(e) == <<"Setup failed: ">> \o e

(***************************************************************************)
(* The response of the agent runtime, as process_prompt inspects it.  A    *)
(* message either has a content attribute (a string, possibly empty) or    *)
(* not, and either has a type attribute or not.                            *)
(***************************************************************************)
NoAttr == "<no attribute>"
Contents == {"", "c1", "c2"}
MsgTypes == {"ai", "human"}
Messages == [content : Contents \cup {NoAttr}, type : MsgTypes \cup {NoAttr}]
SeqsUpTo(S, n) == UNION {[1..k -> S] : k \in 0..n}
\* kind "messages": response['messages'] is a list; kind "other": it has no
\* 'messages' key or the value is not a list.
Responses ==
  [kind : {"messages"}, messages : SeqsUpTo(Messages, MaxMsgs)]
    \cup {[kind |-> "other", messages |-> <<>>]}
NoResponse == [kind |-> "none", messages |-> <<>>]
\* The responses the client's request pipeline is run with: one of each
\* branch of the extraction.
PipelineResponses ==
  {[kind |-> "other", messages |-> <<>>],
   [kind |-> "messages", messages |-> <<>>],
   [kind |-> "messages", messages |-> <<[content |-> "c1", type |-> "ai"]>>],
   [kind |-> "messages", messages |-> <<[content |-> "c1", type |-> "human"]>>]}

\* A Python string as a text: the empty string has no part.
Txt(c) == IF c = "" THEN <<>> ELSE <<c>>

\* sep.join(texts)
RECURSIVE Join(_, _)
Join(texts, sep) ==
  IF texts = <<>> THEN <<>>
  ELSE IF Len(texts) = 1 THEN texts[1]
  ELSE texts[1] \o <<sep>> \o Join(Tail(texts), sep)

\* hasattr(msg, 'content') and msg.content
HasTruthyContent(msg) == msg.content # NoAttr /\ msg.content # ""

\* The test of the loop at lines 189-194: the message's content is collected.
IsCollected_ai_only(msg) == HasTruthyContent(msg) /\ msg.type = "ai"
IsCollected(msg) ==
  HasTruthyContent(msg) /\ (msg.type = "ai" \/ msg.type = NoAttr)

\* assistant_messages after the loop: the collected contents, in order.
RECURSIVE assistant_messages(_)
assistant_messages(msgs) ==
  IF msgs = <<>> THEN <<>>
  ELSE (IF IsCollected(Head(msgs)) THEN <<Txt(Head(msgs).content)>> ELSE <<>>)
         \o assistant_messages(Tail(msgs))

\* str(x) of an object that is not a string: one opaque part naming it.
StrOfMessage(msg) == <<"str(message)", msg.type>>
StrOfResponse(resp) == <<"str(response)">>

\* Lines 185-206: response_text, or the exception the extraction raises
\* (response['messages'][-1] of an empty list).
response_text(resp) ==
  IF resp.kind = "messages"
  THEN LET collected == assistant_messages(resp.messages) IN
       IF collected # <<>>
       THEN [ok |-> TRUE, text |-> Join(collected, "\n\n")]
       ELSE IF resp.messages = <<>>
            THEN [ok |-> FALSE, text |-> <<"list index out of range">>]
            ELSE LET last_message == resp.messages[Len(resp.messages)] IN
                 [ok |-> TRUE,
                  text |-> IF last_message.content # NoAttr
                           THEN Txt(last_message.content)
                           ELSE StrOfMessage(last_message)]
  ELSE [ok |-> TRUE, text |-> StrOfResponse(resp)]

\* Lines 184-213: the text process_prompt returns for a response.
process_response(resp, sid) ==
  LET r == response_text(resp) IN
  IF r.ok THEN [ok |-> TRUE, text |-> r.text \o session_status(sid)]
  ELSE r

(***************************************************************************)
(* WebsiteSessionManager.                                                  *)
(***************************************************************************)
\* uuid.uuid4(): the identifiers it may return.  The generator is taken at
\* its contract (spec 4.1: "assumed infallible"): it never returns a value
\* it returned before.
uuid4 == UUIDS \ issued

start_new_session_keep(u) ==
  /\ current_session_id' =
       IF current_session_id = None THEN u ELSE current_session_id
  /\ project_description' = ""
start_new_session_nodesc(u) ==
  /\ current_session_id' = u
  /\ UNCHANGED project_description
start_new_session(u) ==
  /\ current_session_id' = u
  /\ project_description' = ""

get_current_session == current_session_id

\* History of a call of start_new_session that drew u.
RecordStart(u) ==
  /\ issued' = issued \cup {u}
  /\ past_ids' = past_ids \cup ({current_session_id} \ {None})
  /\ starts' = starts + 1
  /\ desc_before' = project_description

Out(op, val, exc, propagated, resp, sid) ==
  [op |-> op, val |-> val, exc |-> exc, propagated |-> propagated,
   resp |-> resp, sid |-> sid]

(***************************************************************************)
(* The Agent Client's operations.  process_prompt and init_agent are       *)
(* coroutines of one event loop: a coroutine runs from one await to the    *)
(* next without another coroutine running in between.  The def handlers    *)
(* (start_new_project, get_session_info, clear_current_session) run on     *)
(* worker threads of the UI framework, so one of them may run between any  *)
(* two statements of a coroutine.                                          *)
(***************************************************************************)
\* The positions at which a coroutine holds the event loop.
Running == {"get_session", "start_session", "submit"}
LoopFree(p) == \A q \in Procs \ {p} : pc[q] \notin Running

\* A call returns val to its caller (or lets exc propagate).
Return(op, val, exc, propagated, resp, sid) ==
  output' = Out(op, val, exc, propagated, resp, sid)

\* init_agent, lines 146-150, up to its await: the global agent is tested;
\* an agent that is set is returned, otherwise setup() is awaited.
init_agent(p, j) ==
  IF agent = NoAgent
  THEN /\ pc' = [pc EXCEPT ![p] = "setup"]
       /\ UNCHANGED <<current_agent, output>>
  ELSE /\ current_agent' = [current_agent EXCEPT ![p] = agent]
       /\ IF j = "process_prompt"
          THEN pc' = [pc EXCEPT ![p] = "get_session"] /\ UNCHANGED output
          ELSE /\ pc' = [pc EXCEPT ![p] = "idle"]
               /\ Return("init_agent", <<>>, <<>>, FALSE, NoResponse, None)

\* A user message arrives: process_prompt starts and awaits init_agent().
PP_Call(p) ==
  /\ pc[p] = "idle"
  /\ calls < MaxCalls
  /\ LoopFree(p)
  /\ calls' = calls + 1
  /\ job' = [job EXCEPT ![p] = "process_prompt"]
  /\ invocations' = [invocations EXCEPT ![p] = 0]
  /\ clear_streak' = 0
  /\ init_agent(p, "process_prompt")
  /\ UNCHANGED <<smVars, agent, session_id, constructed, assigned, issued,
                 past_ids, starts, served, desc_before,
                 toolVars>>

\* The start-up path (line 357): init_agent() called on its own.
Main_InitAgent(p) ==
  /\ pc[p] = "idle"
  /\ calls < MaxCalls
  /\ LoopFree(p)
  /\ calls' = calls + 1
  /\ job' = [job EXCEPT ![p] = "init_agent"]
  /\ clear_streak' = 0
  /\ init_agent(p, "init_agent")
  /\ UNCHANGED <<smVars, agent, session_id, constructed, assigned, issued,
                 past_ids, starts, served, invocations, desc_before,
                 toolVars>>

\* setup() returns a newly built agent (lines 103-139) and init_agent
\* assigns it to the global (line 149).
Setup_Ok(p) ==
  /\ pc[p] = "setup"
  /\ LoopFree(p)
  /\ LET new == constructed + 1 IN
     /\ constructed' = new
     /\ agent' = new
     /\ assigned' = assigned + 1
     /\ current_agent' = [current_agent EXCEPT ![p] = new]
  /\ IF job[p] = "process_prompt"
     THEN pc' = [pc EXCEPT ![p] = "get_session"] /\ UNCHANGED output
     ELSE /\ pc' = [pc EXCEPT ![p] = "idle"]
          /\ Return("init_agent", <<>>, <<>>, FALSE, NoResponse, None)
  /\ UNCHANGED <<smVars, job, session_id, calls, issued, past_ids, starts,
                 served, invocations, clear_streak, desc_before,
                 toolVars>>

\* setup() fails, with an init_agent that would have stored a placeholder
\* in the global before awaiting setup().
Setup_Fail_stored(p) ==
  /\ pc[p] = "setup"
  /\ LoopFree(p)
  /\ \E e \in Errors :
       LET exc == setup_except(<<e>>) IN
       IF job[p] = "process_prompt"
       THEN Return("process_prompt", process_prompt_except(exc), exc, FALSE,
                   NoResponse, None)
       ELSE Return("init_agent", <<>>, exc, TRUE, NoResponse, None)
  /\ pc' = [pc EXCEPT ![p] = "idle"]
  /\ agent' = constructed + 1
  /\ UNCHANGED <<smVars, job, current_agent, session_id, histVars,
                 toolVars>>

\* setup() fails (lines 141-143): its exception leaves init_agent and is
\* caught by process_prompt (lines 215-217), or reaches init_agent's caller.
Setup_Fail(p) ==
  /\ pc[p] = "setup"
  /\ LoopFree(p)
  /\ \E e \in Errors :
       LET exc == setup_except(<<e>>) IN
       IF job[p] = "process_prompt"
       THEN Return("process_prompt", process_prompt_except(exc), exc, FALSE,
                   NoResponse, None)
       ELSE Return("init_agent", <<>>, exc, TRUE, NoResponse, None)
  /\ pc' = [pc EXCEPT ![p] = "idle"]
  /\ UNCHANGED <<smVars, agent, job, current_agent, session_id, histVars,
                 toolVars>>

\* Line 159: session_id = session_manager.get_current_session()
PP_GetSession(p) ==
  /\ pc[p] = "get_session"
  /\ session_id' = [session_id EXCEPT ![p] = get_current_session]
  /\ pc' = [pc EXCEPT ![p] =
              IF get_current_session = None THEN "start_session" ELSE "submit"]
  /\ UNCHANGED <<smVars, agent, job, current_agent, output, histVars,
                 toolVars>>

\* Lines 160-161: session_id = session_manager.start_new_session()
PP_StartSession(p) ==
  /\ pc[p] = "start_session"
  /\ \E u \in uuid4 :
       /\ start_new_session(u)
       /\ RecordStart(u)
       /\ session_id' = [session_id EXCEPT ![p] = current_session_id']
  /\ pc' = [pc EXCEPT ![p] = "submit"]
  /\ UNCHANGED <<agent, job, current_agent, output, calls, constructed,
                 assigned, served, invocations, clear_streak,
                 toolVars>>

\* Line 181: current_agent.ainvoke(query, config) is called and awaited.
PP_Submit(p) ==
  /\ pc[p] = "submit"
  /\ invocations' = [invocations EXCEPT ![p] = @ + 1]
  /\ served' = served \cup {current_agent[p]}
  /\ pc' = [pc EXCEPT ![p] = "invoke"]
  /\ UNCHANGED <<smVars, agent, job, current_agent, session_id, output, calls,
                 constructed, assigned, issued, past_ids, starts, clear_streak,
                 desc_before,
                 toolVars>>

\* The agent answers with a response of set S: lines 184-213, with the
\* except clause for what the extraction raises.
PP_Respond(p, S) ==
  /\ pc[p] = "invoke"
  /\ LoopFree(p)
  /\ \E resp \in S :
       LET r == process_response(resp, session_id[p]) IN
       IF r.ok
       THEN Return("process_prompt", r.text, <<>>, FALSE, resp, session_id[p])
       ELSE Return("process_prompt", process_prompt_except(r.text), r.text,
                   FALSE, resp, session_id[p])
  /\ pc' = [pc EXCEPT ![p] = "idle"]
  /\ UNCHANGED <<smVars, agent, job, current_agent, session_id, histVars,
                 toolVars>>

PP_Response(p) == PP_Respond(p, PipelineResponses)

\* The agent invocation raises: lines 215-217.
PP_InvokeFail(p) ==
  /\ pc[p] = "invoke"
  /\ LoopFree(p)
  /\ \E e \in Errors :
       Return("process_prompt", process_prompt_except(<<e>>), <<e>>, FALSE,
              NoResponse, session_id[p])
  /\ pc' = [pc EXCEPT ![p] = "idle"]
  /\ UNCHANGED <<smVars, agent, job, current_agent, session_id, histVars,
                 toolVars>>

\* Lines 219-222.
start_new_project ==
  /\ calls < MaxCalls
  /\ calls' = calls + 1
  /\ clear_streak' = 0
  /\ \E u \in uuid4 :
       /\ start_new_session(u)
       /\ RecordStart(u)
       /\ Return("start_new_project",
                 <<"Started New Website Project! Session ID: ",
                   Prefix8(current_session_id'), "...">>,
                 <<>>, FALSE, NoResponse, current_session_id')
  /\ UNCHANGED <<agent, coVars, constructed, assigned, served, invocations,
                 toolVars>>

\* Lines 224-236.
get_session_info_text(sid) ==
  IF sid = None
  THEN <<"No active session. Start a new project or send a message to begin.">>
  ELSE <<"**Active Session:** ", Prefix8(sid),
         "...\n\nState is automatically managed by LangGraph MemorySaver.">>

get_session_info ==
  /\ calls < MaxCalls
  /\ calls' = calls + 1
  /\ clear_streak' = 0
  /\ Return("get_session_info", get_session_info_text(get_current_session),
            <<>>, FALSE, NoResponse, get_current_session)
  /\ UNCHANGED <<smVars, agent, coVars, constructed, assigned, issued,
                 past_ids, starts, served, invocations, desc_before,
                 toolVars>>

\* Lines 238-243.
clear_current_session_reset ==
  /\ calls < MaxCalls
  /\ calls' = calls + 1
  /\ clear_streak' = clear_streak + 1
  /\ current_session_id' = None
  /\ project_description' = ""
  /\ Return("clear_current_session", <<"Session Cleared!">>, <<>>, FALSE,
            NoResponse, None)
  /\ UNCHANGED <<agent, coVars, constructed, assigned, issued, past_ids,
                 starts, served, invocations, desc_before,
                 toolVars>>
clear_current_session ==
  /\ calls < MaxCalls
  /\ calls' = calls + 1
  /\ clear_streak' = clear_streak + 1
  /\ LET old_session == get_current_session IN
     \E u \in uuid4 :
       /\ start_new_session(u)
       /\ RecordStart(u)
       /\ Return("clear_current_session",
                 <<"Session Cleared! Old session: ",
                   IF old_session # None THEN Prefix8(old_session) ELSE "None",
                   "... New session: ", Prefix8(current_session_id'), "...">>,
                 <<>>, FALSE, NoResponse, current_session_id')
  /\ UNCHANGED <<agent, coVars, constructed, assigned, served, invocations,
                 toolVars>>

\* Lines 93-95.
set_project_description ==
  /\ calls < MaxCalls
  /\ calls' = calls + 1
  /\ clear_streak' = 0
  /\ \E d \in Descriptions : project_description' = d
  /\ Return("set_project_description", <<>>, <<>>, FALSE, NoResponse, None)
  /\ UNCHANGED <<current_session_id, agent, coVars, constructed, assigned,
                 issued, past_ids, starts, served, invocations, desc_before,
                 toolVars>>

NoCall == [op |-> "none"]
NotReturned == [kind |-> "pending"]

\* File names are sequences of words; the last word of a name, when it
\* starts with a dot and is not the whole name, is its extension.
LOGO_PNG == <<"logo", ".png">>
INDEX_HTML == <<"index", ".html">>
FileNames ==
  {LOGO_PNG, <<"Portfolio", "LOGO", ".PNG">>, <<"hero", ".jpg">>,
   INDEX_HTML, <<"page", ".png", ".html">>, <<"assets", ".png">>}
\* The names under which the user keeps a subdirectory.
SubdirNames == {<<"assets", ".png">>}
\* What a name of the directory holds: nothing, a subdirectory, the bytes
\* of a file the user put there, or a text save_code_to_path wrote.
ABSENT == "<absent>"
DIRECTORY == "<directory>"
USER_BYTES == "<bytes>"
Codes == {"<h1>a</h1>", "<h1>b</h1>"}

\* The directory the server process starts in.
START_DIR == "<start>"
IMAGES_DIR == "<images>"
\* No save_code_to_path call is under way; nothing was deployed yet.
NoResult == [kind |-> "none"]
NoSave == [pc |-> "idle", code |-> "", name |-> <<>>, result |-> NoResult]
NotShipped == [done |-> FALSE, site |-> {}]

\* The server process has just started and no call is under way.
AtStart ==
  /\ outside = ABSENT
  /\ cwd = START_DIR
  /\ saving = NoSave
  /\ shipped = NotShipped

\* IMAGES_DIR does not exist yet.
NoImagesDir ==
  /\ dir_exists = FALSE
  /\ files = [n \in FileNames |-> ABSENT]
  /\ dir_readable = TRUE
  /\ AtStart

\* The Tool Server at rest.
ToolsIdle ==
  /\ call = NoCall
  /\ ret = NotReturned
  /\ re_possessive = TRUE
  /\ NoImagesDir

\* The module after import (lines 97-100) and the manager after __init__
\* (lines 78-80).
ClientInit ==
  /\ current_session_id = None
  /\ project_description = ""
  /\ agent = NoAgent
  /\ pc = [p \in Procs |-> "idle"]
  /\ job = [p \in Procs |-> "none"]
  /\ current_agent = [p \in Procs |-> NoAgent]
  /\ session_id = [p \in Procs |-> None]
  /\ output = Out("none", <<>>, <<>>, FALSE, NoResponse, None)
  /\ calls = 0
  /\ constructed = 0
  /\ assigned = 0
  /\ issued = {}
  /\ past_ids = {}
  /\ starts = 0
  /\ served = {}
  /\ invocations = [p \in Procs |-> 0]
  /\ clear_streak = 0
  /\ desc_before = ""

Init == ClientInit /\ ToolsIdle

Next ==
  \/ \E p \in Procs : PP_Call(p)
  \/ \E p \in Procs : Main_InitAgent(p)
  \/ \E p \in Procs : Setup_Ok(p)
  \/ \E p \in Procs : Setup_Fail(p)
  \/ \E p \in Procs : PP_GetSession(p)
  \/ \E p \in Procs : PP_StartSession(p)
  \/ \E p \in Procs : PP_Submit(p)
  \/ \E p \in Procs : PP_Response(p)
  \/ \E p \in Procs : PP_InvokeFail(p)
  \/ start_new_project
  \/ get_session_info
  \/ clear_current_session
  \/ set_project_description

Spec == Init /\ [][Next]_vars

(***************************************************************************)
(* Session manager and request pipeline: the properties.                   *)
(***************************************************************************)

\* C1: every call of start_new_session leaves a current session identifier
\* that is not None, differs from the identifier held just before and from
\* every identifier held earlier; and the identifier changes in no other
\* way, so an identifier that was replaced is never current again.
C1_FreshSession ==
  [][ /\ (starts' # starts =>
            /\ current_session_id' # None
            /\ current_session_id' # current_session_id
            /\ current_session_id' \notin past_ids)
      /\ (current_session_id' # current_session_id => starts' # starts)
    ]_vars

\* Two Clear Session actions in a row have run: two identifiers were held.
C1_Witness ==
  /\ clear_streak = 2
  /\ current_session_id # None
  /\ past_ids # {}
  /\ current_session_id \notin past_ids

\* The step is the call of start_new_session made by process_prompt.
PromptStartsSession ==
  \E p \in Procs : /\ pc[p] = "start_session"
                   /\ pc'[p] = "submit"
                   /\ job[p] = "process_prompt"
\* The step is a whole call of the named def handler (a coroutine's call
\* moves its pc or returns as init_agent).
HandlerStep(op) == calls' = calls + 1 /\ pc' = pc /\ output'.op = op

\* C2: the session identifier is None initially; it leaves None only by
\* process_prompt, start_new_project or clear_current_session; Clear Session
\* replaces it with another identifier; once set it is never None again.
C2_Lifecycle ==
  /\ current_session_id = None
  /\ [][ /\ (current_session_id = None /\ current_session_id' # None =>
               \/ PromptStartsSession
               \/ HandlerStep("start_new_project")
               \/ HandlerStep("clear_current_session"))
         /\ (HandlerStep("clear_current_session") =>
               /\ current_session_id' # None
               /\ current_session_id' # current_session_id)
         /\ (current_session_id # None => current_session_id' # None)
       ]_vars

\* Clear Session has replaced an identifier that was set.
C2_Witness ==
  /\ output.op = "clear_current_session"
  /\ clear_streak >= 1
  /\ past_ids # {}
  /\ current_session_id # None

\* The step is line 159 of process_prompt, the call of get_current_session.
GetSessionStep(p) == pc[p] = "get_session" /\ pc'[p] # "get_session"

\* C3: start_new_session leaves the project description empty whatever it
\* was; get_current_session returns the current identifier (None when no
\* session was ever started) and changes neither field; get_session_info
\* changes neither field.
C3_Frame ==
  [][ /\ (starts' # starts => project_description' = "")
      /\ \A p \in Procs :
           GetSessionStep(p) =>
             /\ session_id'[p] = current_session_id
             /\ (starts = 0 => session_id'[p] = None)
             /\ UNCHANGED smVars
      /\ (HandlerStep("get_session_info") =>
            /\ UNCHANGED smVars
            /\ output'.sid = current_session_id)
    ]_vars

\* start_new_session has run on a description that was not empty.
C3_Witness ==
  /\ starts > 0
  /\ desc_before = "portfolio site"
  /\ project_description = ""
  /\ current_session_id # None

\* C4: setup() builds an agent at most once, the global agent is assigned
\* at most once, and every request is served by the same agent.
C4_Singleton ==
  /\ constructed <= 1
  /\ assigned <= 1
  /\ Cardinality(served) <= 1

\* Last(s) of a non-empty text.
LastPart(s) == s[Len(s)]

\* C5: process_prompt lets no exception out; when construction or the
\* invocation raised, it returns "Error:", the exception's message and the
\* troubleshooting text; the agent is invoked at most once per message.
C5_ErrorString ==
  /\ (output.op = "process_prompt" => ~output.propagated)
  /\ (output.op = "process_prompt" /\ output.exc # <<>> =>
        /\ Head(output.val) = "Error: "
        /\ SubSeq(output.val, 2, 1 + Len(output.exc)) = output.exc
        /\ LastPart(output.val) = TROUBLESHOOT
        /\ Len(output.val) = Len(output.exc) + 2)
  /\ \A p \in Procs : invocations[p] <= 1

\* process_prompt has returned after setup() failed.
C5_Witness ==
  /\ output.op = "process_prompt"
  /\ output.exc = setup_except(<<"connection refused">>)
  /\ agent = NoAgent

(***************************************************************************)
(* Response extraction on its own: a coroutine is awaiting the agent under *)
(* some session, and the agent answers with any response shape.            *)
(***************************************************************************)
AwaitingAgent(sid) ==
  /\ current_session_id = sid
  /\ project_description = ""
  /\ agent = 1
  /\ pc = [p \in Procs |-> IF p = 1 THEN "invoke" ELSE "idle"]
  /\ job = [p \in Procs |-> IF p = 1 THEN "process_prompt" ELSE "none"]
  /\ current_agent = [p \in Procs |-> IF p = 1 THEN 1 ELSE NoAgent]
  /\ session_id = [p \in Procs |-> IF p = 1 THEN sid ELSE None]
  /\ output = Out("none", <<>>, <<>>, FALSE, NoResponse, None)
  /\ calls = 1
  /\ constructed = 1
  /\ assigned = 1
  /\ issued = {sid}
  /\ past_ids = {}
  /\ starts = 1
  /\ served = {1}
  /\ invocations = [p \in Procs |-> IF p = 1 THEN 1 ELSE 0]
  /\ clear_streak = 0
  /\ desc_before = ""

InitResponse == (\E sid \in UUIDS : AwaitingAgent(sid)) /\ ToolsIdle

PP_ResponseAny(p) == PP_Respond(p, Responses)

NextResponse == \E p \in Procs : PP_ResponseAny(p)

SpecResponse == InitResponse /\ [][NextResponse]_vars

\* The positions of the messages whose content the extraction collects.
CollectedAt(msgs) ==
  {i \in 1..Len(msgs) :
     /\ msgs[i].content \notin {NoAttr, ""}
     /\ msgs[i].type \in {"ai", NoAttr}}
\* The positions of the assistant-authored messages with non-empty content.
AssistantAt(msgs) ==
  {i \in 1..Len(msgs) :
     msgs[i].content \notin {NoAttr, ""} /\ msgs[i].type = "ai"}
\* The m-th position of I, in increasing order.
Nth(I, m) == CHOOSE i \in I : Cardinality({j \in I : j <= i}) = m

\* body is the contents at the positions I of msgs, in order, with a blank
\* line between two of them.
IsJoinOf(body, msgs, I) ==
  /\ Len(body) = 2 * Cardinality(I) - 1
  /\ \A m \in 1..Cardinality(I) : body[2 * m - 1] = msgs[Nth(I, m)].content
  /\ \A m \in 1..(Cardinality(I) - 1) : body[2 * m] = "\n\n"

\* body is the text of the last message of msgs.
IsLastText(body, msgs) ==
  LET last == msgs[Len(msgs)] IN
  IF last.content = NoAttr THEN body = <<"str(message)", last.type>>
  ELSE IF last.content = "" THEN body = <<>>
  ELSE body = <<last.content>>

\* val ends with the session-status text for sid; what precedes it.
EndsWithStatus(val, sid) ==
  /\ Len(val) >= 3
  /\ SubSeq(val, Len(val) - 2, Len(val)) =
       <<"\n\n**Session ID:** ", sid.pre, "... (State automatically saved)">>
BodyOf(val) == SubSeq(val, 1, Len(val) - 3)

Answered == output.op = "process_prompt" /\ output.resp # NoResponse

FENCE == "<fence>"
WS == " "
Words == {"html", "HTML", "c", "c++"}
TextAlphabet == {FENCE, WS} \cup Words
\* The texts of at most n tokens.
Texts(n) == SeqsUpTo(TextAlphabet, n)
Langs == Words

Value(v) == [kind |-> "value", val |-> v]
Raise(e) == [kind |-> "raise", val |-> <<e>>]

\* str.lower()
Lower(w) ==
  CASE w = "HTML" -> "html"
    [] w = "LOGO" -> "logo"
    [] w = "Portfolio" -> "portfolio"
    [] w = ".PNG" -> ".png"
    [] OTHER -> w

\* Whether re accepts the pattern built from lang (line 334 interpolates
\* lang unescaped): "c++" is a repeated repeat before Python 3.11 and a
\* possessive quantifier from 3.11 on.
PatternCompiles(lang) == lang # "c++" \/ re_possessive

\* The words the pattern fragment {lang} matches: itself when it has no
\* metacharacter; one or more "c" for "c++".
TagMatches(lang) == IF lang = "c++" THEN {"c"} ELSE {lang}

\* str.strip()
RECURSIVE LStrip(_)
LStrip(t) == IF t # <<>> /\ Head(t) = WS THEN LStrip(Tail(t)) ELSE t
RECURSIVE RStrip(_)
RStrip(t) ==
  IF t # <<>> /\ t[Len(t)] = WS THEN RStrip(SubSeq(t, 1, Len(t) - 1)) ELSE t
Strip(t) == RStrip(LStrip(t))

SetMin(S) == CHOOSE x \in S : \A y \in S : x <= y

\* The positions at which the pattern of line 334 (fence, {lang}, \s+,
\* (.*?), fence) matches: a fence, the tag,
\* white space, and a later fence.
MatchStarts(text, tags) ==
  {i \in 1..(Len(text) - 3) :
     /\ text[i] = FENCE
     /\ text[i + 1] \in tags
     /\ text[i + 2] = WS
     /\ \E j \in (i + 3)..Len(text) : text[j] = FENCE}

\* match.group(1) of the leftmost match: \s+ takes the white space after
\* the tag, (.*?) stops at the first fence after it.
Group1(text, i) ==
  LET close == SetMin({j \in (i + 3)..Len(text) : text[j] = FENCE}) IN
  SubSeq(text, i + 3, close - 1)

\* Lines 321-336.
extract_code_blocks(text, lang) ==
  IF text = <<>> THEN Value(<<"no text provided">>)
  ELSE IF ~PatternCompiles(Lower(lang)) THEN Raise("re.error")
  ELSE LET found == MatchStarts(text, TagMatches(Lower(lang))) IN
       IF found = {} THEN Value(<<>>)
       ELSE Value(Strip(Group1(text, SetMin(found))))

\* The tool is called with a text and a language.
InitExtract ==
  /\ ClientInit
  /\ call \in [op : {"extract_code_blocks"}, text : Texts(MaxText), lang : Langs]
  /\ ret = NotReturned
  /\ re_possessive \in BOOLEAN
  /\ NoImagesDir

ExtractCodeBlocks ==
  /\ call.op = "extract_code_blocks"
  /\ ret = NotReturned
  /\ ret' = extract_code_blocks(call.text, call.lang)
  /\ UNCHANGED <<clientVars, call, re_possessive, fsVars, restVars>>

NextExtract == ExtractCodeBlocks

SpecExtract == InitExtract /\ [][NextExtract]_vars

\* The fenced blocks of text tagged lang: an opening fence followed by the
\* tag and white space, up to the next fence.
BlockStarts(text, lang) == MatchStarts(text, {lang})

\* C7: extract_code_blocks returns the stripped inner text of the first
\* fenced block tagged with the given language, returns the empty string
\* when the text has no such block, and never raises.
C7_Extract ==
  call.op = "extract_code_blocks" /\ ret # NotReturned =>
    /\ ret.kind = "value"
    /\ IF BlockStarts(call.text, call.lang) = {}
       THEN ret.val = <<>>
       ELSE ret.val =
              Strip(Group1(call.text, SetMin(BlockStarts(call.text, call.lang))))

(***************************************************************************)
(* Tool Server: deploy_netlify.  The output of the netlify process is a    *)
(* sequence of tokens: a double quote, the word deploy_url, a colon, white *)
(* space, an ANSI escape sequence, or other text.                          *)
(***************************************************************************)
QUOTE == "<quote>"
KEYWORD == "deploy_url"
COLON == ":"
ANSI == "<ESC[..m>"
OutputChunks ==
  {<<QUOTE, KEYWORD, QUOTE, COLON, QUOTE, "https://a.netlify.app", QUOTE>>,
   <<QUOTE, KEYWORD, QUOTE, COLON, WS, QUOTE, "https://b.netlify.app", QUOTE>>,
   <<QUOTE, KEYWORD, QUOTE>>,
   <<ANSI, QUOTE, KEYWORD, QUOTE, ANSI>>,
   <<QUOTE>>, <<COLON>>, <<WS>>, <<ANSI>>, <<"https://a.netlify.app">>}

RECURSIVE Flatten(_)
Flatten(chunks) ==
  IF chunks = <<>> THEN <<>> ELSE Head(chunks) \o Flatten(Tail(chunks))

\* What run_command("netlify deploy --json") may return (lines 17-23).
Outputs(n) == {Flatten(c) : c \in SeqsUpTo(OutputChunks, n)}

\* Lines 13-15: every escape sequence is removed.
RECURSIVE remove_ansi(_)
remove_ansi(text) ==
  IF text = <<>> THEN <<>>
  ELSE (IF Head(text) = ANSI THEN <<>> ELSE <<Head(text)>>)
         \o remove_ansi(Tail(text))

\* The first position at or after i that holds no white space (\s*).
RECURSIVE SkipWs(_, _)
SkipWs(text, i) ==
  IF i <= Len(text) /\ text[i] = WS THEN SkipWs(text, i + 1) ELSE i

\* The first position at or after i that holds a quote, or Len + 1 ([^"]+).
RECURSIVE SkipNonQuote(_, _)
SkipNonQuote(text, i) ==
  IF i <= Len(text) /\ text[i] # QUOTE THEN SkipNonQuote(text, i + 1) ELSE i

NoMatch == [found |-> FALSE, group1 |-> <<>>]

\* The pattern of line 314 tried at position i:
\* "deploy_url"\s*:\s*"([^"]+)"
MatchAt(text, i) ==
  IF /\ i + 2 <= Len(text)
     /\ text[i] = QUOTE /\ text[i + 1] = KEYWORD /\ text[i + 2] = QUOTE
  THEN LET c == SkipWs(text, i + 3) IN
       IF c <= Len(text) /\ text[c] = COLON
       THEN LET q == SkipWs(text, c + 1) IN
            IF q <= Len(text) /\ text[q] = QUOTE
            THEN LET e == SkipNonQuote(text, q + 1) IN
                 IF e > q + 1 /\ e <= Len(text)
                 THEN [found |-> TRUE, group1 |-> SubSeq(text, q + 1, e - 1)]
                 ELSE NoMatch
            ELSE NoMatch
       ELSE NoMatch
  ELSE NoMatch

\* re.search: the leftmost position at which the pattern matches.
RECURSIVE Search(_, _)
Search(text, i) ==
  IF i > Len(text) THEN NoMatch
  ELSE IF MatchAt(text, i).found THEN MatchAt(text, i)
  ELSE Search(text, i + 1)

DEPLOY_OK == "Deploy successful!\n\nURL: "
DEPLOY_NO_URL == "Could not find deploy URL.\n\nFull output:\n"

\* Lines 306-318.
deploy_netlify_search_raw(raw_output) ==
  LET match == Search(raw_output, 1) IN
  IF match.found THEN Value(<<DEPLOY_OK>> \o match.group1)
  ELSE Value(<<DEPLOY_NO_URL>> \o remove_ansi(raw_output))
deploy_netlify(raw_output) ==
  LET clean_output == remove_ansi(raw_output)
      match == Search(clean_output, 1)
  IN IF match.found THEN Value(<<DEPLOY_OK>> \o match.group1)
     ELSE Value(<<DEPLOY_NO_URL>> \o clean_output)

\* The tool is called; the netlify process will print call.output.
InitDeploy ==
  /\ ClientInit
  /\ call \in [op : {"deploy_netlify"}, output : Outputs(MaxChunks)]
  /\ ret = NotReturned
  /\ re_possessive = TRUE
  /\ NoImagesDir

\* What the netlify process reads and uploads: the regular files of its
\* working directory (those of IMAGES_DIR; the directory the server starts
\* in holds no site).
Upload ==
  [done |-> TRUE,
   site |-> IF cwd = IMAGES_DIR
            THEN {<<n, files[n]>> :
                    n \in {m \in FileNames :
                             files[m] \notin {ABSENT, DIRECTORY}}}
            ELSE {}]

\* Lines 306-318; line 310 runs the netlify process.
DeployNetlify ==
  /\ call.op = "deploy_netlify"
  /\ ret = NotReturned
  /\ ret' = deploy_netlify(call.output)
  /\ shipped' = Upload
  /\ UNCHANGED <<clientVars, call, re_possessive, fsVars, outside, cwd,
                 saving>>

NextDeploy == DeployNetlify

SpecDeploy == InitDeploy /\ [][NextDeploy]_vars

\* A "deploy_url" field of text starts at i: the quoted key, then a colon,
\* with white space allowed before it.
KeyColonAt(text, i) ==
  /\ i + 2 <= Len(text)
  /\ text[i] = QUOTE /\ text[i + 1] = KEYWORD /\ text[i + 2] = QUOTE
  /\ \E c \in (i + 3)..Len(text) :
       /\ text[c] = COLON
       /\ \A w \in (i + 3)..(c - 1) : text[w] = WS

\* The values of the "deploy_url" field that starts at position i of text:
\* the quoted key, a colon and an opening quote with white space allowed
\* around the colon, then a non-empty run without a quote, then a quote.
ValuesAt(text, i) ==
  IF /\ i + 2 <= Len(text)
     /\ text[i] = QUOTE /\ text[i + 1] = KEYWORD /\ text[i + 2] = QUOTE
  THEN UNION {
         UNION {
           {SubSeq(text, q + 1, e - 1) :
              e \in {x \in (q + 2)..Len(text) :
                       /\ text[x] = QUOTE
                       /\ \A u \in (q + 1)..(x - 1) : text[u] # QUOTE}} :
           q \in {y \in (c + 1)..Len(text) :
                    /\ text[y] = QUOTE
                    /\ \A w \in (c + 1)..(y - 1) : text[w] = WS}} :
         c \in {z \in (i + 3)..Len(text) :
                  /\ text[z] = COLON
                  /\ \A w \in (i + 3)..(z - 1) : text[w] = WS}}
  ELSE {}

\* The positions of text at which a field with a value starts.
ValuedFields(text) == {i \in 1..Len(text) : ValuesAt(text, i) # {}}

\* The output without its escape sequences.
Cleaned(text) == SelectSeq(text, LAMBDA t : t # ANSI)

Deployed == call.op = "deploy_netlify" /\ ret # NotReturned

\* C8 (as stated): an output with no "deploy_url" field gives the
\* could-not-find string followed by the raw output; an output with such a
\* field gives the success string with the first such URL.
C8_RawOutput ==
  Deployed =>
    IF \E i \in 1..Len(call.output) : KeyColonAt(call.output, i)
    THEN /\ Head(ret.val) = DEPLOY_OK
         /\ \E i \in 1..Len(call.output) :
              Tail(ret.val) \in ValuesAt(call.output, i)
    ELSE ret.val = <<DEPLOY_NO_URL>> \o call.output

\* C8 (amended): the output is first stripped of its ANSI escape sequences.
\* When the stripped output has no "deploy_url" key followed by a colon and
\* a non-empty double-quoted value, the result is the could-not-find string
\* followed by the stripped output; otherwise it is the success string with
\* the first such value.  Exactly one of the two occurs.
C8_Deploy ==
  Deployed =>
    /\ ret.kind = "value"
    /\ Head(ret.val) \in {DEPLOY_OK, DEPLOY_NO_URL}
    /\ LET clean == Cleaned(call.output) IN
       IF ValuedFields(clean) # {}
       THEN /\ Head(ret.val) = DEPLOY_OK
            /\ ValuesAt(clean, SetMin(ValuedFields(clean))) = {Tail(ret.val)}
       ELSE ret.val = <<DEPLOY_NO_URL>> \o clean

\* An output whose first field is coloured and has an empty value, followed
\* by a field with a value, has been deployed: the second value is reported.
C8_Witness ==
  /\ Deployed
  /\ Cleaned(call.output) # call.output
  /\ Head(ret.val) = DEPLOY_OK
  /\ \E i, j \in 1..Len(call.output) :
       /\ i < j
       /\ KeyColonAt(Cleaned(call.output), i)
       /\ KeyColonAt(Cleaned(call.output), j)
       /\ ValuesAt(Cleaned(call.output), i) = {}
       /\ ValuesAt(Cleaned(call.output), j) # {}

(***************************************************************************)
(* The image catalog and code persistence (mcp_server.py, lines 29-84,     *)
(* 189-256 and 338-365).  The directory is the state; the user adds and    *)
(* removes files between tool calls.  A tool call is one step: the server  *)
(* serves one call at a time here.  A dictionary or a list keyed by file   *)
(* name is a function on the set of its names: Python keeps the order in   *)
(* which the directory happens to be listed.                               *)
(***************************************************************************)
SUPPORTED_IMAGE_FORMATS ==
  {".jpg", ".jpeg", ".png", ".gif", ".svg", ".webp", ".bmp", ".ico"}
DotWords == {".png", ".PNG", ".jpg", ".html"}

\* Path.suffix
suffix(name) ==
  IF Len(name) >= 2 /\ name[Len(name)] \in DotWords
  THEN name[Len(name)]
  ELSE ""

\* Path.iterdir() and Path.is_file()
iterdir(fs) == {n \in FileNames : fs[n] # ABSENT}
is_file(fs, n) == fs[n] \notin {ABSENT, DIRECTORY}

\* str.lower() of a name, and the test  word in name  for the keywords of
\* the heuristics (the words of FileNames hold a keyword only as a whole
\* word).
LowerName(name) == [i \in 1..Len(name) |-> Lower(name[i])]
Has(name, word) == \E i \in 1..Len(name) : name[i] = word

Dict(kind, images, text) == [kind |-> kind, images |-> images, text |-> text]
MSG_CREATED == "Images directory created. Please add some images."
MSG_NONE == "No supported image files found."
ERR_SCAN == "Failed to scan images directory"

\* Lines 47-55 without the test of the extension.
get_available_images_unfiltered(exists, fs, readable) ==
  IF ~exists THEN Dict("message", <<>>, MSG_CREATED)
  ELSE IF ~readable THEN Dict("error", <<>>, ERR_SCAN)
  ELSE LET names == {n \in iterdir(fs) : is_file(fs, n)}
           images_info ==
             [n \in names |-> [name |-> n, format |-> Lower(suffix(n))]]
       IN IF names = {} THEN Dict("message", <<>>, MSG_NONE)
          ELSE Dict("images", images_info, "")

\* Lines 33-63 with the extension compared as it is written.
get_available_images_as_written(exists, fs, readable) ==
  IF ~exists THEN Dict("message", <<>>, MSG_CREATED)
  ELSE IF ~readable THEN Dict("error", <<>>, ERR_SCAN)
  ELSE LET names ==
             {n \in iterdir(fs) :
                is_file(fs, n) /\ suffix(n) \in SUPPORTED_IMAGE_FORMATS}
           images_info ==
             [n \in names |-> [name |-> n, format |-> Lower(suffix(n))]]
       IN IF names = {} THEN Dict("message", <<>>, MSG_NONE)
          ELSE Dict("images", images_info, "")

\* Lines 33-63, on a disk (exists, fs, readable); the directory it creates
\* at line 43 is the caller's step.
get_available_images(exists, fs, readable) ==
  IF ~exists THEN Dict("message", <<>>, MSG_CREATED)
  ELSE IF ~readable THEN Dict("error", <<>>, ERR_SCAN)
  ELSE LET names ==
             {n \in iterdir(fs) :
                /\ is_file(fs, n)
                /\ Lower(suffix(n)) \in SUPPORTED_IMAGE_FORMATS}
           images_info ==
             [n \in names |-> [name |-> n, format |-> Lower(suffix(n))]]
       IN IF names = {} THEN Dict("message", <<>>, MSG_NONE)
          ELSE Dict("images", images_info, "")

IsNotice(images_info) == images_info.kind \in {"message", "error"}

\* Lines 65-84.
list_available_images(images_info) ==
  IF IsNotice(images_info) THEN images_info
  ELSE [kind |-> "listing",
        available_images |-> images_info.images,
        total_images |-> Cardinality(DOMAIN images_info.images),
        supported_formats |-> SUPPORTED_IMAGE_FORMATS]

HEADER_LOGO == "Use as website logo in header"
HERO_BANNER == "Use as hero/banner background image"
PRODUCT == "Use in product showcase or gallery"
TEAM == "Use in team/about section"
ICON == "Use as icon or small decorative element"
PORTFOLIO == "Perfect for portfolio showcase"
LANDING == "Ideal for landing page hero section"

Suggestion(image, usage, html, confidence) ==
  [image |-> image, suggested_usage |-> usage, html_example |-> html,
   confidence |-> confidence]

\* Lines 207-235: the suggestion from the name alone.
by_name(image_name) ==
  LET image_name_lower == LowerName(image_name) IN
  IF Has(image_name_lower, "logo")
    THEN Suggestion(image_name, HEADER_LOGO, "logo", "high")
  ELSE IF Has(image_name_lower, "hero") \/ Has(image_name_lower, "banner")
    THEN Suggestion(image_name, HERO_BANNER, "background", "high")
  ELSE IF Has(image_name_lower, "product")
    THEN Suggestion(image_name, PRODUCT, "product-image", "high")
  ELSE IF Has(image_name_lower, "team") \/ Has(image_name_lower, "staff")
    THEN Suggestion(image_name, TEAM, "team-photo", "high")
  ELSE IF Has(image_name_lower, "icon")
    THEN Suggestion(image_name, ICON, "icon", "medium")
  ELSE Suggestion(image_name, "", "img", "medium")

\* Lines 238-243 with the tests of the name left out.
suggestion_any_name(image_name, context_lower) ==
  LET s == by_name(image_name) IN
  IF Has(context_lower, "portfolio")
    THEN [s EXCEPT !.suggested_usage = PORTFOLIO, !.confidence = "high"]
  ELSE IF Has(context_lower, "landing")
    THEN [s EXCEPT !.suggested_usage = LANDING, !.confidence = "high"]
  ELSE s

\* Lines 207-245: one image's suggestion.
suggestion(image_name, context_lower) ==
  LET image_name_lower == LowerName(image_name)
      s == by_name(image_name)
  IN IF /\ Has(context_lower, "portfolio")
        /\ \E word \in {"work", "project", "portfolio"} :
             Has(image_name_lower, word)
       THEN [s EXCEPT !.suggested_usage = PORTFOLIO, !.confidence = "high"]
     ELSE IF Has(context_lower, "landing") /\ Has(image_name_lower, "hero")
       THEN [s EXCEPT !.suggested_usage = LANDING, !.confidence = "high"]
     ELSE s

\* Lines 189-256.
suggest_image_usage(images_info, website_context) ==
  IF IsNotice(images_info) THEN images_info
  ELSE [kind |-> "suggestions",
        website_context |-> website_context,
        total_images |-> Cardinality(DOMAIN images_info.images),
        suggestions |->
          [n \in DOMAIN images_info.images |->
             suggestion(n, LowerName(website_context))]]

Contexts == {<<"Portfolio", "site">>, <<"landing", "page">>, <<"blog">>}

\* The user puts a file into the directory, removes an entry, makes a
\* subdirectory, or changes who may list the directory.  The result of the
\* last tool call is consumed by then.
Consumed == call' = NoCall /\ ret' = NotReturned

UserAddsFile(n) ==
  /\ dir_exists
  /\ files[n] = ABSENT
  /\ files' = [files EXCEPT ![n] = USER_BYTES]
  /\ Consumed
  /\ UNCHANGED <<clientVars, re_possessive, dir_exists, dir_readable, restVars>>

UserRemovesEntry(n) ==
  /\ files[n] # ABSENT
  /\ files' = [files EXCEPT ![n] = ABSENT]
  /\ Consumed
  /\ UNCHANGED <<clientVars, re_possessive, dir_exists, dir_readable, restVars>>

UserMakesSubdir(n) ==
  /\ dir_exists
  /\ files[n] = ABSENT
  /\ files' = [files EXCEPT ![n] = DIRECTORY]
  /\ Consumed
  /\ UNCHANGED <<clientVars, re_possessive, dir_exists, dir_readable, restVars>>

UserChangesAccess ==
  /\ dir_exists
  /\ dir_readable' = ~dir_readable
  /\ Consumed
  /\ UNCHANGED <<clientVars, re_possessive, dir_exists, files, restVars>>

\* Lines 33-63 as a call of its own.
GetAvailableImages ==
  /\ call' = [op |-> "get_available_images"]
  /\ ret' = Value(get_available_images(dir_exists, files, dir_readable))
  /\ dir_exists' = TRUE
  /\ UNCHANGED <<clientVars, re_possessive, files, dir_readable, restVars>>

\* Lines 65-84.
ListAvailableImages ==
  /\ call' = [op |-> "list_available_images"]
  /\ ret' = Value(list_available_images(
                    get_available_images(dir_exists, files, dir_readable)))
  /\ dir_exists' = TRUE
  /\ UNCHANGED <<clientVars, re_possessive, files, dir_readable, restVars>>

\* Lines 189-256.
SuggestImageUsage(website_context) ==
  /\ call' = [op |-> "suggest_image_usage",
              website_context |-> website_context]
  /\ ret' = Value(suggest_image_usage(
                    get_available_images(dir_exists, files, dir_readable),
                    website_context))
  /\ dir_exists' = TRUE
  /\ UNCHANGED <<clientVars, re_possessive, files, dir_readable, restVars>>

\* A file name that leaves the directory: os.path.join (line 351) keeps
\* the "../" the caller wrote.
PARENT == "../"
TRAVERSAL == <<PARENT, "index", ".html">>
SaveNames == FileNames \cup {TRAVERSAL}
Escapes(name) == name[1] = PARENT

\* Lines 357-365: the message, with the images the scan finds on fs.
saved_message(name_of_the_file, fs, readable) ==
  LET images_info == get_available_images(TRUE, fs, readable)
      available_images ==
        IF IsNotice(images_info) THEN {} ELSE DOMAIN images_info.images
  IN [kind |-> "saved",
      file_path |-> name_of_the_file,
      available_images |-> available_images]

\* Lines 338-365.  open(file_path, "w") raises when the name is taken by a
\* directory, and nothing catches it.
SaveCodeToPath(the_extracted_code_blocks, name_of_the_file) ==
  /\ call' = [op |-> "save_code_to_path",
              the_extracted_code_blocks |-> the_extracted_code_blocks,
              name_of_the_file |-> name_of_the_file]
  /\ dir_exists' = TRUE
  /\ IF Escapes(name_of_the_file)
     THEN /\ outside' = the_extracted_code_blocks
          /\ files' = files
          /\ ret' = Value(saved_message(name_of_the_file, files,
                                        dir_readable))
     ELSE IF files[name_of_the_file] = DIRECTORY
     THEN /\ ret' = Raise("PermissionError")
          /\ UNCHANGED <<files, outside>>
     ELSE /\ files' = [files EXCEPT
                         ![name_of_the_file] = the_extracted_code_blocks]
          /\ outside' = outside
          /\ ret' = Value(saved_message(name_of_the_file, files',
                                        dir_readable))
  /\ UNCHANGED <<clientVars, re_possessive, dir_readable, cwd, saving,
                 shipped>>

\* The Tool Server after start: the directory may or may not exist.
InitServer ==
  /\ ClientInit
  /\ call = NoCall
  /\ ret = NotReturned
  /\ re_possessive = TRUE
  /\ dir_exists \in BOOLEAN
  /\ files = [n \in FileNames |-> ABSENT]
  /\ dir_readable = TRUE
  /\ AtStart

NextServer ==
  \/ \E n \in FileNames : UserAddsFile(n)
  \/ \E n \in FileNames : UserRemovesEntry(n)
  \/ \E n \in SubdirNames : UserMakesSubdir(n)
  \/ UserChangesAccess
  \/ GetAvailableImages
  \/ ListAvailableImages
  \/ \E website_context \in Contexts : SuggestImageUsage(website_context)
  \/ \E code \in Codes, n \in FileNames : SaveCodeToPath(code, n)

SpecServer == InitServer /\ [][NextServer]_vars

\* A call of op has returned a value; what it returned.
Returned(op) == call.op = op /\ ret.kind = "value"

\* C9 (suggest_image_usage): whenever the directory can be listed and
\* holds the file logo.png, whatever the website context, the call returns
\* suggestions, and the one for logo.png has confidence "high" and the
\* header-logo usage; and no suggestion for a name that does not contain
\* "logo", in any letter case, has the header-logo usage.
C9_LogoSuggestion ==
  call.op = "suggest_image_usage" =>
    /\ ret.kind = "value"
    /\ (dir_readable /\ is_file(files, LOGO_PNG)) =>
         /\ ret.val.kind = "suggestions"
         /\ LOGO_PNG \in DOMAIN ret.val.suggestions
         /\ ret.val.suggestions[LOGO_PNG].suggested_usage = HEADER_LOGO
         /\ ret.val.suggestions[LOGO_PNG].confidence = "high"
    /\ ret.val.kind = "suggestions" =>
         \A n \in DOMAIN ret.val.suggestions :
           (\A i \in 1..Len(n) : Lower(n[i]) # "logo") =>
             ret.val.suggestions[n].suggested_usage # HEADER_LOGO

\* C9's case: for a portfolio site, logo.png is suggested for the header
\* next to an image that is not, and next to one whose name holds "logo"
\* and that the context turns into a portfolio piece.
C9_Witness ==
  /\ Returned("suggest_image_usage")
  /\ call.website_context = <<"Portfolio", "site">>
  /\ ret.val.kind = "suggestions"
  /\ ret.val.total_images = 3
  /\ ret.val.suggestions[LOGO_PNG].suggested_usage = HEADER_LOGO
  /\ ret.val.suggestions[<<"hero", ".jpg">>].suggested_usage = HERO_BANNER
  /\ ret.val.suggestions[<<"Portfolio", "LOGO", ".PNG">>].suggested_usage
       = PORTFOLIO

\* The file names a returned value lists as images.
Listed ==
  IF ret.kind # "value" THEN {}
  ELSE CASE call.op = "get_available_images" -> DOMAIN ret.val.images
         [] call.op = "list_available_images" ->
              IF ret.val.kind = "listing"
              THEN DOMAIN ret.val.available_images
              ELSE {}
         [] call.op = "save_code_to_path" -> ret.val.available_images
         [] OTHER -> {}

\* The files save_code_to_path wrote, that are still there, and whose
\* extension is not a supported image format.
SavedNonImages ==
  {n \in FileNames :
     files[n] \in Codes /\ Lower(suffix(n)) \notin SUPPORTED_IMAGE_FORMATS}

\* C10: no catalog scan (get_available_images, list_available_images, the
\* image list save_code_to_path returns) lists a file that
\* save_code_to_path wrote under a name whose extension is not a supported
\* image format, whatever else the directory holds and whatever was saved
\* before.
C10_SavedNotListed == Listed \cap SavedNonImages = {}

\* C10's case: index.html was saved, and a scan lists the images of the
\* directory, one of them written by save_code_to_path under an image's
\* name.
C10_Witness ==
  /\ files[INDEX_HTML] \in Codes
  /\ files[<<"page", ".png", ".html">>] \in Codes
  /\ call.op \in {"get_available_images", "list_available_images"}
  /\ \E n \in Listed : files[n] \in Codes
  /\ \E n \in Listed : files[n] = USER_BYTES

(***************************************************************************)
(* One save_code_to_path call on a directory with any earlier content.     *)
(***************************************************************************)
\* What a name may hold before the call.
Earlier(n) ==
  {ABSENT, USER_BYTES, "<h1>a</h1>"}
    \cup (IF n \in SubdirNames THEN {DIRECTORY} ELSE {})

InitSave ==
  /\ ClientInit
  /\ call = NoCall
  /\ ret = NotReturned
  /\ re_possessive = TRUE
  /\ dir_exists \in BOOLEAN
  /\ files \in [FileNames -> {ABSENT, DIRECTORY, USER_BYTES, "<h1>a</h1>"}]
  /\ \A n \in FileNames : files[n] \in Earlier(n)
  /\ ~dir_exists => \A n \in FileNames : files[n] = ABSENT
  /\ dir_readable \in BOOLEAN
  /\ ~dir_exists => dir_readable
  /\ outside \in {ABSENT, USER_BYTES}
  /\ cwd = START_DIR
  /\ saving = NoSave
  /\ shipped = NotShipped

NextSave ==
  \E code \in Codes, n \in SaveNames :
    call = NoCall /\ SaveCodeToPath(code, n)

SpecSave == InitSave /\ [][NextSave]_vars

\* The images of the directory: the regular files with a supported
\* extension.
ImagesOn(fs) ==
  {n \in FileNames :
     /\ fs[n] \notin {ABSENT, DIRECTORY}
     /\ Lower(suffix(n)) \in SUPPORTED_IMAGE_FORMATS}

\* The call that returns in this step can write and list: the directory
\* can be listed and the name it is given is not that of a subdirectory.
SaveCanWrite ==
  /\ call'.op = "save_code_to_path"
  /\ dir_readable
  /\ call'.name_of_the_file \in FileNames =>
       files[call'.name_of_the_file] # DIRECTORY

\* C11: every save_code_to_path(code, name) call that can write and list
\* leaves exactly code in the file called name of the project directory,
\* leaves every other file of the directory and the file outside it as
\* they were, and returns the message that lists the images present after
\* the write.
C11_SaveFrame ==
  [][SaveCanWrite =>
       LET name == call'.name_of_the_file
           code == call'.the_extracted_code_blocks
       IN /\ name \in FileNames
          /\ files'[name] = code
          /\ \A n \in FileNames \ {name} : files'[n] = files[n]
          /\ outside' = outside
          /\ ret'.kind = "value"
          /\ ret'.val.available_images = ImagesOn(files')]_vars

\* The catalog a scan returned: the entries of get_available_images or of
\* list_available_images, none when it returned a notice.
Catalog(r) ==
  IF r.kind # "value" THEN <<>>
  ELSE IF r.val.kind = "images" THEN r.val.images
  ELSE IF r.val.kind = "listing" THEN r.val.available_images
  ELSE <<>>

ScanOps == {"get_available_images", "list_available_images"}

NOT_FOUND == "Image not found."
ALREADY_THERE == "Image is already in the website directory."
COPIED == "Image copied successfully!"
COPY_FAILED == "Failed to copy image"
\* new_name left out (None), or given as "".
NoName == <<>>

\* Lines 86-112.
get_image_info(images_info, image_name) ==
  IF IsNotice(images_info) THEN images_info
  ELSE IF image_name \notin DOMAIN images_info.images
  THEN [kind |-> "error", text |-> NOT_FOUND,
        available_images |-> DOMAIN images_info.images]
  ELSE [kind |-> "info",
        name |-> images_info.images[image_name].name,
        format |-> images_info.images[image_name].format,
        relative_path |-> image_name,
        html_usage |-> image_name]

\* Lines 150-187.
generate_image_gallery_html(images_info) ==
  IF IsNotice(images_info) THEN images_info
  ELSE [kind |-> "plain", text |-> "<!-- Image Gallery -->",
        items |-> DOMAIN images_info.images]

Plain(text, name) == [kind |-> "plain", text |-> text, name |-> name]

\* Lines 86-112.
GetImageInfo(image_name) ==
  /\ call' = [op |-> "get_image_info", image_name |-> image_name]
  /\ ret' = Value(get_image_info(
                    get_available_images(dir_exists, files, dir_readable),
                    image_name))
  /\ dir_exists' = TRUE
  /\ UNCHANGED <<clientVars, re_possessive, files, dir_readable, restVars>>

\* Lines 114-148.  shutil.copy2 writes the source's bytes under the
\* destination name, or into the subdirectory of that name.
CopyImageToWebsite(image_name, new_name) ==
  LET images_info == get_available_images(dir_exists, files, dir_readable)
      destination_name == IF new_name # NoName THEN new_name ELSE image_name
  IN /\ call' = [op |-> "copy_image_to_website",
                 image_name |-> image_name, new_name |-> new_name]
     /\ dir_exists' = TRUE
     /\ IF IsNotice(images_info)
        THEN ret' = Value(images_info) /\ files' = files
        ELSE IF image_name \notin DOMAIN images_info.images
        THEN ret' = Value(Plain(NOT_FOUND, image_name)) /\ files' = files
        ELSE IF destination_name = image_name
        THEN /\ ret' = Value(Plain(ALREADY_THERE, destination_name))
             /\ files' = files
        ELSE /\ ret' = Value(Plain(COPIED, destination_name))
             /\ files' = IF files[destination_name] = DIRECTORY THEN files
                         ELSE [files EXCEPT
                                 ![destination_name] = files[image_name]]
     /\ UNCHANGED <<clientVars, re_possessive, dir_readable, restVars>>

\* Lines 150-187.
GenerateImageGalleryHtml ==
  /\ call' = [op |-> "generate_image_gallery_html"]
  /\ ret' = Value(generate_image_gallery_html(
                    get_available_images(dir_exists, files, dir_readable)))
  /\ dir_exists' = TRUE
  /\ UNCHANGED <<clientVars, re_possessive, files, dir_readable, restVars>>

\* The server is asked for a code block, or is idle with no directory yet.
InitMissing ==
  /\ ClientInit
  /\ \/ call \in [op : {"extract_code_blocks"}, text : Texts(MaxText),
                  lang : Langs]
     \/ call = NoCall
  /\ ret = NotReturned
  /\ re_possessive \in BOOLEAN
  /\ NoImagesDir

\* The operations on the catalog.
CatalogCall ==
  \/ GetAvailableImages
  \/ ListAvailableImages
  \/ GenerateImageGalleryHtml
  \/ \E website_context \in Contexts : SuggestImageUsage(website_context)
  \/ \E n \in FileNames : GetImageInfo(n)
  \/ \E n \in FileNames, m \in FileNames \cup {NoName} :
       CopyImageToWebsite(n, m)

NextMissing ==
  \/ ExtractCodeBlocks
  \/ call.op # "extract_code_blocks" /\ CatalogCall
  \/ \E n \in FileNames : UserAddsFile(n)
  \/ \E n \in FileNames : UserRemovesEntry(n)
  \/ \E n \in SubdirNames : UserMakesSubdir(n)
  \/ UserChangesAccess

SpecMissing == InitMissing /\ [][NextMissing]_vars

CatalogOps ==
  {"get_available_images", "list_available_images", "suggest_image_usage",
   "generate_image_gallery_html", "get_image_info", "copy_image_to_website"}

\* The conditions under which what was asked for is not there.
UnknownImage ==
  /\ call.op \in {"get_image_info", "copy_image_to_website"}
  /\ call.image_name \notin ImagesOn(files)
EmptyDirectory == call.op \in CatalogOps /\ ImagesOn(files) = {}
EmptyInput ==
  call.op = "extract_code_blocks" /\ ret # NotReturned /\ call.text = <<>>
\* A text without a block for a language tag made of letters, whatever the
\* letter case of the tag.
MissingBlock ==
  /\ call.op = "extract_code_blocks"
  /\ ret # NotReturned
  /\ call.text # <<>>
  /\ call.lang # "c++"
  /\ BlockStarts(call.text, call.lang) = {}
  /\ BlockStarts(call.text, Lower(call.lang)) = {}

IsJsonNotice(r) == r.kind = "value" /\ r.val.kind \in {"message", "error"}

\* C13 as stated: an unknown image name, an empty or absent directory, an
\* empty input and a missing block never raise and give only the empty
\* string or a JSON object with a "message" or "error" key.
C13_Sentinels ==
  /\ (UnknownImage \/ EmptyDirectory) => IsJsonNotice(ret)
  /\ (EmptyInput \/ MissingBlock) => ret = Value(<<>>)

\* C14: no file failure escapes a Tool Server operation as an exception;
\* in particular every save_code_to_path call returns a string.
C14_Caught == call.op = "save_code_to_path" => ret.kind = "value"

(***************************************************************************)
(* save_code_to_path and deploy_netlify served at the same time.  The save *)
(* is taken statement by statement: os.makedirs and open (lines 348-353),  *)
(* which truncates the file; f.write (line 354), which hands the text to   *)
(* the file in buffer-sized parts when it is larger than the buffer; the   *)
(* end of the with block, which writes what is left; and the scan and the  *)
(* return (lines 357-365).  Nothing in the code makes the deployment wait. *)
(***************************************************************************)
EMPTY == ""
\* The part of a text that reaches the file before the rest.
FirstPart(code) == "<h1>"

\* Lines 348-353 with an open() that would leave the old content in place
\* until the text is complete.
Save_Open_keeping(the_extracted_code_blocks, name_of_the_file) ==
  /\ saving.pc = "idle"
  /\ files[name_of_the_file] # DIRECTORY
  /\ dir_exists' = TRUE
  /\ files' = files
  /\ saving' = [pc |-> "opened", code |-> the_extracted_code_blocks,
                name |-> name_of_the_file, result |-> NoResult]
  /\ UNCHANGED <<clientVars, call, ret, re_possessive, dir_readable,
                 outside, cwd, shipped>>

\* Lines 348-353.
Save_Open(the_extracted_code_blocks, name_of_the_file) ==
  /\ saving.pc = "idle"
  /\ files[name_of_the_file] # DIRECTORY
  /\ dir_exists' = TRUE
  /\ files' = [files EXCEPT ![name_of_the_file] = EMPTY]
  /\ saving' = [pc |-> "opened", code |-> the_extracted_code_blocks,
                name |-> name_of_the_file, result |-> NoResult]
  /\ UNCHANGED <<clientVars, call, ret, re_possessive, dir_readable,
                 outside, cwd, shipped>>

\* Line 354, for a text larger than the buffer.
Save_Flush ==
  /\ saving.pc = "opened"
  /\ files' = [files EXCEPT ![saving.name] = FirstPart(saving.code)]
  /\ saving' = [saving EXCEPT !.pc = "flushed"]
  /\ UNCHANGED <<clientVars, call, ret, re_possessive, dir_exists,
                 dir_readable, outside, cwd, shipped>>

\* Line 354 and the end of the with block.
Save_Close ==
  /\ saving.pc \in {"opened", "flushed"}
  /\ files' = [files EXCEPT ![saving.name] = saving.code]
  /\ saving' = [saving EXCEPT !.pc = "closed"]
  /\ UNCHANGED <<clientVars, call, ret, re_possessive, dir_exists,
                 dir_readable, outside, cwd, shipped>>

\* Lines 357-365.
Save_Return ==
  /\ saving.pc = "closed"
  /\ saving' = [saving EXCEPT
                  !.pc = "idle",
                  !.result = saved_message(saving.name, files, dir_readable)]
  /\ UNCHANGED <<clientVars, call, ret, re_possessive, fsVars, outside, cwd,
                 shipped>>

\* Lines 295-303.
GoToProjectFolder ==
  /\ call.op # "deploy_netlify" \/ ret # NotReturned
  /\ call' = [op |-> "go_to_project_folder_for_deployment"]
  /\ IF dir_exists
     THEN /\ cwd' = IMAGES_DIR
          /\ ret' = Value(Plain("Changed working directory", <<>>))
     ELSE /\ cwd' = cwd
          /\ ret' = Value(Plain("Failed to change directory", <<>>))
  /\ UNCHANGED <<clientVars, re_possessive, fsVars, outside, saving, shipped>>

\* A deploy_netlify call arrives; the netlify process will print
\* raw_output.
DeployCalled(raw_output) ==
  /\ call.op # "deploy_netlify" \/ ret # NotReturned
  /\ call' = [op |-> "deploy_netlify", output |-> raw_output]
  /\ ret' = NotReturned
  /\ UNCHANGED <<clientVars, re_possessive, fsVars, restVars>>

\* What the netlify process prints here.
RaceOutputs ==
  {<<QUOTE, KEYWORD, QUOTE, COLON, QUOTE, "https://a.netlify.app", QUOTE>>,
   <<"Error: not logged in">>}

\* The project directory holds a page, and perhaps a logo.
InitRace ==
  /\ ClientInit
  /\ call = NoCall
  /\ ret = NotReturned
  /\ re_possessive = TRUE
  /\ dir_exists = TRUE
  /\ \E logo \in {ABSENT, USER_BYTES} :
       files = [n \in FileNames |->
                  IF n = INDEX_HTML THEN USER_BYTES
                  ELSE IF n = LOGO_PNG THEN logo ELSE ABSENT]
  /\ dir_readable = TRUE
  /\ AtStart

NextRace ==
  \/ \E code \in Codes, n \in {INDEX_HTML, LOGO_PNG} : Save_Open(code, n)
  \/ Save_Flush
  \/ Save_Close
  \/ Save_Return
  \/ GoToProjectFolder
  \/ \E raw_output \in RaceOutputs : DeployCalled(raw_output)
  \/ DeployNetlify

SpecRace == InitRace /\ [][NextRace]_vars

\* The save is between the truncation and the end of its write.
MidWrite == saving.pc \in {"opened", "flushed"}

\* C15: nothing makes a deployment wait for a save: whenever the netlify
\* process reads the project directory while a save_code_to_path call is
\* between truncating its file and completing the write, it uploads that
\* file with a content (empty, or the first part of the text) that is
\* neither a text that was saved nor what the file held before.
C15_HalfWritten ==
  [][(call.op = "deploy_netlify" /\ ret = NotReturned /\ ret' # NotReturned
      /\ call' = call /\ MidWrite /\ cwd = IMAGES_DIR) =>
       \E c \in {EMPTY, FirstPart(saving.code)} :
         /\ <<saving.name, c>> \in shipped'.site
         /\ c \notin Codes \cup {USER_BYTES}]_vars

\* C15's case: the deployment has uploaded index.html with a content that
\* is neither the old page nor a saved text, while the save that truncated
\* it has not completed its write.
C15_Witness ==
  /\ shipped.done
  /\ MidWrite
  /\ saving.name = INDEX_HTML
  /\ call.op = "deploy_netlify" /\ ret # NotReturned
  /\ \E c \in {EMPTY, "<h1>"} : <<INDEX_HTML, c>> \in shipped.site
  /\ \A c \in Codes \cup {USER_BYTES} : <<INDEX_HTML, c>> \notin shipped.site

(***************************************************************************)
(* check_netlify_cli and install_netlify_cli (lines 263-284).  The output  *)
(* of a process is a sequence of phrases;  marker in result  holds when    *)
(* one of the phrases is the marker.                                       *)
(***************************************************************************)
MARKER_FR == "'netlify' n'est pas reconnu"
MARKER_EN == "'netlify' is not recognized"
Phrases ==
  {MARKER_FR, MARKER_EN, "Usage: netlify [COMMAND]",
   "bash: netlify: command not found"}
\* What the netlify command and the npm command may print.
ProbeOutputs == SeqsUpTo(Phrases, 2)
NpmOutputs == {<<>>, <<"added 1 package">>, <<"npm ERR! code EACCES">>}

NOT_INSTALLED == "Netlify CLI is NOT installed."
INSTALLED == "Netlify CLI is installed.\n\n"

\* The test of lines 270 and 283.
not_recognized(result) ==
  \E i \in 1..Len(result) : result[i] \in {MARKER_FR, MARKER_EN}

\* Lines 263-273.
check_netlify_cli(result) ==
  IF not_recognized(result) THEN Value(<<NOT_INSTALLED>>)
  ELSE Value(<<INSTALLED>> \o result)

\* A function that ends without a return statement returns None.
ReturnsNone == [kind |-> "None", val |-> <<>>]

\* Lines 276-284: what is returned, and the commands that were run.
install_netlify_cli(result, npm_output) ==
  IF not_recognized(result)
  THEN [returned |-> Value(npm_output),
        ran |-> <<"netlify", "npm install -g netlify-cli">>]
  ELSE [returned |-> ReturnsNone, ran |-> <<"netlify">>]

\* A tool is called; the netlify command will print call.result and the
\* npm command, if it is run, call.npm_output.
InitInstall ==
  /\ ClientInit
  /\ call \in [op : {"check_netlify_cli", "install_netlify_cli"},
               result : ProbeOutputs, npm_output : NpmOutputs]
  /\ ret = NotReturned
  /\ re_possessive = TRUE
  /\ NoImagesDir

CheckNetlifyCli ==
  /\ call.op = "check_netlify_cli"
  /\ ret = NotReturned
  /\ ret' = check_netlify_cli(call.result)
  /\ UNCHANGED <<clientVars, call, re_possessive, fsVars, restVars>>

InstallNetlifyCli ==
  /\ call.op = "install_netlify_cli"
  /\ ret = NotReturned
  /\ LET done == install_netlify_cli(call.result, call.npm_output) IN
       ret' = [kind |-> done.returned.kind, val |-> done.returned.val,
               ran |-> done.ran]
  /\ UNCHANGED <<clientVars, call, re_possessive, fsVars, restVars>>

NextInstall == CheckNetlifyCli \/ InstallNetlifyCli

SpecInstall == InitInstall /\ [][NextInstall]_vars

\* C16: install_netlify_cli runs the npm install command exactly when the
\* output of the netlify command holds one of the two markers, which is
\* exactly when check_netlify_cli reports on that output that the CLI is
\* not installed; and every call returns a string, the output of the npm
\* install command.
C16_Install ==
  (call.op = "install_netlify_cli" /\ ret # NotReturned) =>
    LET marked == \E i \in 1..Len(call.result) :
                    call.result[i] \in {MARKER_FR, MARKER_EN}
        ran_npm == \E i \in 1..Len(ret.ran) :
                     ret.ran[i] = "npm install -g netlify-cli"
    IN /\ ran_npm <=> marked
       /\ marked <=> check_netlify_cli(call.result) = Value(<<NOT_INSTALLED>>)
       /\ ret.kind = "value"
       /\ ret.val = call.npm_output

\* C17: a user message never replaces a session.  In every interleaving of
\* process_prompt with New Project and Clear Session, process_prompt calls
\* start_new_session (line 161) only while no session exists, and the
\* identifier it submits its request under (line 181) is the current one.
C17_NoReplace ==
  [][\A p \in Procs :
       /\ (pc[p] = "start_session" /\ pc'[p] = "submit") =>
            current_session_id = None
       /\ (pc[p] = "submit" /\ pc'[p] = "invoke") =>
            session_id[p] = current_session_id]_vars

\* The step in which the process_prompt of slot p returns its error string
\* from position at.
FailsAt(p, at) ==
  /\ pc[p] = at
  /\ pc'[p] = "idle"
  /\ job[p] = "process_prompt"
  /\ output'.op = "process_prompt"
  /\ output'.exc # <<>>

\* C18: a user message that fails during agent construction changes
\* nothing: the global agent, the session identifier and the project
\* description keep their values and no session is started, so the agent
\* stays unset when it was; a user message that arrives while the agent is
\* unset attempts construction; a user message that fails during the
\* invocation leaves the agent set and the session in place, and reports
\* the identifier it had resolved.
C18_FailureFrame ==
  [][\A p \in Procs :
       /\ FailsAt(p, "setup") =>
            /\ agent' = agent
            /\ current_session_id' = current_session_id
            /\ project_description' = project_description
            /\ starts' = starts /\ issued' = issued
       /\ (pc[p] = "idle" /\ pc'[p] # "idle" /\ job'[p] = "process_prompt"
           /\ agent = NoAgent) =>
            pc'[p] = "setup"
       /\ FailsAt(p, "invoke") =>
            /\ agent' = agent /\ agent # NoAgent
            /\ current_session_id' = current_session_id
            /\ current_session_id # None
            /\ session_id[p] # None
            /\ output'.sid = session_id[p]]_vars

\* C18's case: a message failed during construction in a project that has
\* a session; the session is kept, the agent is still unset, and the next
\* message is constructing the agent again.
C18_Witness ==
  /\ output.op = "process_prompt"
  /\ output.exc = setup_except(<<"invalid API key">>)
  /\ agent = NoAgent
  /\ current_session_id # None
  /\ \E p \in Procs : pc[p] = "setup" /\ job[p] = "process_prompt"

====
